---- MODULE Spec2Model ----
(***************************************************************************)
(* Interview scheduling and slot selection of the recruitment backend      *)
(* (Backend/app/interview_api.py).  One action per HTTP handler; a handler *)
(* runs to completion, so every action is the whole request: role check,   *)
(* lookups, state checks, the committed writes and the notification and    *)
(* e-mail calls that follow the commit.                                    *)
(***************************************************************************)
EXTENDS Integers, Sequences, FiniteSets, TLC

\* ------------------------------------------------------------------------
\* Bounds of the model
\* ------------------------------------------------------------------------
\* Interview rows inserted in one behaviour.
MaxInterviews == 2
\* InterviewSlot rows inserted in one behaviour (slot ids are never reused).
MaxSlots == 2
\* Longest slot batch one add_interview_slots request carries.
MaxBatch == 2

\* ------------------------------------------------------------------------
\* Values
\* ------------------------------------------------------------------------
\* Python None in a nullable datetime column.
NULL == -1
\* Minutes in a day: datetime.combine(date, time) as one number.
MinutesPerDay == 1440

\* users rows: cognito_sub -> role (UserRole.recruiter / UserRole.user).
Users == {"r1", "c1", "c2"}
Role == [u \in Users |-> IF u = "r1" THEN "recruiter" ELSE "user"]

\* applications rows.  a1 carries a resume, a2 does not.
Apps == {"a1", "a2"}
\* An application id no row has.
AppIds == Apps \cup {"a9"}
Candidate == [a \in Apps |-> IF a = "a1" THEN "c1" ELSE "c2"]
HasResume == [a \in Apps |-> a = "a1"]

\* interviewers rows.
Interviewers == {"i1", "i2"}

\* payload.interviewer_ids
InterviewerIdInputs == {{}, Interviewers}

\* payload.schedule_mode
Modes == {"direct", "slot"}

\* payload.scheduled_at: a datetime or None.
ScheduledAtInputs == {NULL, 1 * MinutesPerDay + 600}

\* new_scheduled_at strings, as <<date, hour, minute>>; the hour 25 is a
\* string datetime.fromisoformat rejects.
IsoInputs == {<<2, 14, 30>>, <<1, 25, 0>>}

\* interview_date values.
Dates == {1}

\* One element of the slots body: {start_time, end_time}, each a "%H:%M"
\* string as <<hour, minute>>.  The second has its end before its start, the
\* third has a start_time strptime rejects.
SlotInputs ==
    { [start_time |-> <<9, 0>>,  end_time |-> <<10, 0>>],
      [start_time |-> <<10, 0>>, end_time |-> <<9, 0>>],
      [start_time |-> <<25, 0>>, end_time |-> <<9, 0>>] }

\* Request bodies of add_interview_slots: lists of at most MaxBatch elements.
Batches == UNION { [1..n -> SlotInputs] : n \in 0..MaxBatch }

\* Two requests handled at the same time, each with its own Session.
Sessions == {"p1", "p2"}

\* ------------------------------------------------------------------------
\* State
\* ------------------------------------------------------------------------
VARIABLES
    appStatus,     \* Application.status of each application
    interviews,    \* the interviews table: sequence of rows, id = index
    assigned,      \* the interview_interviewers table: <<interview id, interviewer>>
    slots,         \* the interview_slots table: slot id -> row
    nextSlot,      \* next InterviewSlot id
    hist,          \* history, one entry per interview: the schedule_mode it
                   \* was created with and the handler that last wrote a
                   \* non-null scheduled_at (not a column of any table)
    last,          \* the last request and its response
    inflight       \* the request each database session is handling, when
                   \* requests overlap

vars == <<appStatus, interviews, assigned, slots, nextSlot, hist, last, inflight>>

\* ------------------------------------------------------------------------
\* Pure helpers
\* ------------------------------------------------------------------------
\* datetime.strptime(s, "%H:%M").time(): the minute of the day, or a ValueError.
ParsesAsTime(s) == s[1] \in 0..23 /\ s[2] \in 0..59
TimeOfDay(s) == s[1] * 60 + s[2]

\* datetime.combine(date, time)
Combine(d, t) == d * MinutesPerDay + t

\* datetime.fromisoformat(new_scheduled_at)
IsoParses(s) == s[2] \in 0..23 /\ s[3] \in 0..59
FromIsoformat(s) == Combine(s[1], s[2] * 60 + s[3])

\* Interview ids in the table.
InterviewIds == 1..Len(interviews)

\* db.query(Interview).filter(Interview.application_id == a): the ids found.
InterviewsOf(a) == {i \in InterviewIds : interviews[i].application_id = a}

\* .first() of that query: the row with the lowest id, 0 when there is none.
FirstInterviewOf(a) ==
    IF InterviewsOf(a) = {} THEN 0
    ELSE CHOOSE i \in InterviewsOf(a) : \A j \in InterviewsOf(a) : i <= j

\* interview.slots: ids of the slots of interview i.
SlotsOf(i) == {s \in DOMAIN slots : slots[s].interview_id = i}

\* interview.interviewers
InterviewersOf(i) == {w \in Interviewers : <<i, w>> \in assigned}

\* All orders in which a query can return the set S.
Orders(S) ==
    {q \in [1..Cardinality(S) -> S] : \A x, y \in 1..Cardinality(S) : q[x] = q[y] => x = y}

\* The first n elements of q.
Prefix(q, n) == [k \in 1..(IF n < Len(q) THEN n ELSE Len(q)) |-> q[k]]

\* Elements of a sequence as a set.
Range(q) == {q[k] : k \in 1..Len(q)}

\* The response and the side effects of a request: the handler returns 200
\* when every call after the commit succeeds, and the framework answers 500
\* when one of them raises.  notifs are the notifications written, as
\* <<user, title>>, and mails the e-mails sent, as <<to, attachment>>.  The
\* other fields are filled in by the handlers: the slots body of an
\* add_interview_slots request that parsed, whether the request committed its
\* writes, what raised ("" when nothing did), and whether the request repeats
\* the one before it.
Response(op, caller, app, iid, sid, code, notifs, mails) ==
    [op |-> op, caller |-> caller, app |-> app, iid |-> iid, sid |-> sid,
     code |-> code, notifs |-> notifs, mails |-> mails,
     body |-> <<>>, wrote |-> FALSE, error |-> "", repeat |-> FALSE]

\* The response of a request that an HTTPException ended before any write.
\* The target is recorded when the handler found it (400), not when the
\* caller was turned away (403) or nothing was found (404).
Refused(op, caller, app, sid, code) ==
    [ (IF code = 400 THEN Response(op, caller, app, 0, sid, code, {}, {})
       ELSE Response(op, caller, "a9", 0, 0, code, {}, {}))
      EXCEPT !.error = "HTTPException" ]

\* ------------------------------------------------------------------------
\* Initial state: applications that were submitted, one of them possibly
\* shortlisted; no interview has been scheduled yet.
\* ------------------------------------------------------------------------
\* A session that handles no request.
Idle == [pc |-> "idle", caller |-> "r1", sid |-> 0, code |-> 0]

Init ==
    /\ \E a \in Apps, st \in {"applied", "shortlisted"} :
          appStatus = [x \in Apps |-> IF x = a THEN st ELSE "applied"]
    /\ interviews = <<>>
    /\ assigned = {}
    /\ slots = <<>>
    /\ nextSlot = 1
    /\ hist = <<>>
    /\ last = Response("none", "r1", "a9", 0, 0, 0, {}, {})
    /\ inflight = [p \in Sessions |-> Idle]

\* ------------------------------------------------------------------------
\* Side effects after the commit
\* ------------------------------------------------------------------------
\* The calls a handler makes after its commit are a sequence of
\* <<"notify", user, title>>, <<"fetch", application, "resume">> and
\* <<"mail", to, attachment>>.  What the collaborators do during one request
\* is the number fx of these calls that succeed: the next one raises and the
\* framework answers 500; with fx = Len(calls) none raises.
FxOutcomes(calls) == 0..Len(calls)
Done(calls, fx) == Range(Prefix(calls, fx))
Notified(calls, fx) == {<<c[2], c[3]>> : c \in {d \in Done(calls, fx) : d[1] = "notify"}}
Mailed(calls, fx) == {<<c[2], c[3]>> : c \in {d \in Done(calls, fx) : d[1] = "mail"}}
CallsCode(calls, fx) == IF fx >= Len(calls) THEN 200 ELSE 500

\* The call that raised: "notify", "fetch" or "mail"; "" when none did.
CallsError(calls, fx) == IF fx >= Len(calls) THEN "" ELSE calls[fx + 1][1]

\* Persisted with the writes undone when a call after them raises (the
\* commit placed after the calls, or a rollback in an exception handler).
PersistedIfCallsSucceed(calls, fx) == fx >= Len(calls)

\* Whether the writes of a handler persist when fx of its calls succeed.
\* db.commit() comes before the first call of every handler and nothing
\* rolls back afterwards, so they do whatever the calls do.
Persisted(calls, fx) == TRUE

\* The response of a request that got as far as its writes.
Outcome(op, caller, app, iid, sid, calls, fx) ==
    [ Response(op, caller, app, iid, sid, CallsCode(calls, fx),
               Notified(calls, fx), Mailed(calls, fx))
      EXCEPT !.wrote = Persisted(calls, fx), !.error = CallsError(calls, fx) ]

\* The calendar invite to each interviewer, in the order of the query.
InviteInterviewers(order) == [k \in 1..Len(order) |-> <<"mail", order[k], "ics">>]

\* The resume fetch of a confirmation, when the application has a resume.
FetchResume(a) == IF HasResume[a] THEN <<(<<"fetch", a, "resume">>)>> ELSE <<>>

\* The e-mails of a confirmation (direct schedule, slot selection), in the
\* order the handler sends them: the resume to `to` when the application has
\* one, the calendar invite to `to`, the calendar invite to each interviewer.
ConfirmationMails(to, a, order) ==
    (IF HasResume[a] THEN <<(<<"mail", to, "resume">>)>> ELSE <<>>)
        \o <<(<<"mail", to, "ics">>)>>
        \o InviteInterviewers(order)

\* ------------------------------------------------------------------------
\* schedule_interview
\* ------------------------------------------------------------------------
\* ScheduleCheck without the two state checks (lines 55-59 left out).
ScheduleCheckNoState(u, a) ==
    IF Role[u] # "recruiter" THEN 403
    ELSE IF a \notin Apps THEN 404
    ELSE 0

\* ScheduleCheck without the status check (lines 55-56 left out).
ScheduleCheckNoStatus(u, a) ==
    IF Role[u] # "recruiter" THEN 403
    ELSE IF a \notin Apps THEN 404
    ELSE IF InterviewsOf(a) # {} THEN 400
    ELSE 0

\* ScheduleCheck without the role check (lines 44-45 left out).
ScheduleCheckNoRole(u, a) ==
    IF a \notin Apps THEN 404
    ELSE IF appStatus[a] # "shortlisted" THEN 400
    ELSE IF InterviewsOf(a) # {} THEN 400
    ELSE 0

\* The checks before the insert; 0 when the request passes them.
ScheduleCheck(u, a) ==
    IF Role[u] # "recruiter" THEN 403
    ELSE IF a \notin Apps THEN 404
    ELSE IF appStatus[a] # "shortlisted" THEN 400
    ELSE IF InterviewsOf(a) # {} THEN 400
    ELSE 0

\* NewInterview storing payload.scheduled_at whatever the schedule_mode.
NewInterviewAnyMode(a, mode, sat) ==
    [application_id |-> a, scheduled_at |-> sat, status |-> "scheduled"]

\* The Interview row the handler inserts.
NewInterview(a, mode, sat) ==
    [application_id |-> a,
     scheduled_at   |-> IF mode = "direct" THEN sat ELSE NULL,
     status         |-> "scheduled"]

\* Application.status left as it was by the insert (line 74 left out).
StatusAfterScheduleKept == "shortlisted"

\* Application.status after the insert.
StatusAfterSchedule == "interview"

\* Notification, then for direct mode the resume fetch, the calendar invite
\* and the e-mails.  generate_interview_ics adds a timedelta to scheduled_at
\* and raises on None, after the fetch and before the first e-mail.
ScheduleCalls(a, mode, row, order) ==
    <<(<<"notify", Candidate[a], "scheduled">>)>>
        \o (IF mode # "direct" THEN <<>>
            ELSE FetchResume(a)
                   \o (IF row.scheduled_at = NULL THEN <<>>
                       ELSE ConfirmationMails(Candidate[a], a, order)))

\* Lines 80-86: one InterviewInterviewer row per id of the payload, for the
\* Interview just inserted.
Attached(i, ids) == {<<i, w>> : w \in ids}

ScheduleResponse(u, a, i, mode, row, order, fx) ==
    LET calls == ScheduleCalls(a, mode, row, order)
        r     == Outcome("schedule", u, a, i, 0, calls, fx)
    IN  IF mode = "direct" /\ row.scheduled_at = NULL /\ fx >= Len(calls)
        THEN [r EXCEPT !.code = 500, !.error = "ics"]
        ELSE r

ScheduleInterview ==
    \E u \in Users, a \in AppIds :
        IF ScheduleCheck(u, a) # 0
        THEN /\ last' = Refused("schedule", u, a, 0, ScheduleCheck(u, a))
             /\ UNCHANGED <<appStatus, interviews, assigned, slots, nextSlot, hist>>
        ELSE \E mode \in Modes, sat \in ScheduledAtInputs, ids \in InterviewerIdInputs :
             \E order \in Orders(ids) :
             \E fx \in FxOutcomes(ScheduleCalls(a, mode, NewInterview(a, mode, sat), order)) :
                LET i   == Len(interviews) + 1
                    row == NewInterview(a, mode, sat)
                IN  /\ Len(interviews) < MaxInterviews
                    /\ last' = ScheduleResponse(u, a, i, mode, row, order, fx)
                    /\ UNCHANGED <<slots, nextSlot>>
                    /\ IF Persisted(ScheduleCalls(a, mode, row, order), fx)
                       THEN /\ interviews' = Append(interviews, row)
                            /\ appStatus' = [appStatus EXCEPT ![a] = StatusAfterSchedule]
                            /\ assigned' = assigned \cup Attached(i, ids)
                            /\ hist' = Append(hist,
                                         [mode   |-> mode,
                                          set_by |-> IF row.scheduled_at # NULL
                                                     THEN "schedule" ELSE "none"])
                       ELSE UNCHANGED <<interviews, appStatus, assigned, hist>>

\* ------------------------------------------------------------------------
\* reschedule_interview
\* ------------------------------------------------------------------------
\* RescheduleCheck without the stage check (lines 207-211 left out).
RescheduleCheckNoStage(u, a, s) ==
    IF Role[u] # "recruiter" THEN 403
    ELSE IF FirstInterviewOf(a) = 0 THEN 404
    ELSE IF ~IsoParses(s) THEN 400
    ELSE 0

\* RescheduleCheck with the datetime parsed first (lines 214-218 moved
\* before line 197).
RescheduleCheckParsesFirst(u, a, s) ==
    IF Role[u] # "recruiter" THEN 403
    ELSE IF ~IsoParses(s) THEN 400
    ELSE IF FirstInterviewOf(a) = 0 THEN 404
    ELSE IF appStatus[interviews[FirstInterviewOf(a)].application_id] # "interview" THEN 400
    ELSE 0

RescheduleCheck(u, a, s) ==
    IF Role[u] # "recruiter" THEN 403
    ELSE IF FirstInterviewOf(a) = 0 THEN 404
    ELSE IF appStatus[interviews[FirstInterviewOf(a)].application_id] # "interview" THEN 400
    ELSE IF ~IsoParses(s) THEN 400
    ELSE 0

\* The Interview row after the update.
Rescheduled(row, new_dt) ==
    [row EXCEPT !.scheduled_at = new_dt, !.status = "rescheduled"]

RescheduleCalls(a, order) ==
    <<(<<"notify", Candidate[a], "rescheduled">>), (<<"mail", Candidate[a], "ics">>)>>
        \o InviteInterviewers(order)

\* The response carries the request's new_scheduled_at in body.
RescheduleResponse(u, a, i, s, order, fx) ==
    [Outcome("reschedule", u, a, i, 0, RescheduleCalls(a, order), fx)
       EXCEPT !.body = <<s>>]

\* A new_scheduled_at that parses, to tell which check refused a request.
ParsableIso == CHOOSE x \in IsoInputs : IsoParses(x)

\* The response of a refused request.  A recruiter's request records its
\* application and new_scheduled_at; error is "ValueError" when the refusal
\* is the 400 "Invalid datetime format" of lines 214-218, which is the case
\* when the same request with a datetime that parses is not refused.
RescheduleRefused(u, a, s) ==
    LET code == RescheduleCheck(u, a, s) IN
    IF code = 403 THEN Refused("reschedule", u, a, 0, code)
    ELSE [Response("reschedule", u, a, 0, 0, code, {}, {})
            EXCEPT !.body = <<s>>,
                   !.error = IF RescheduleCheck(u, a, ParsableIso) = 0
                             THEN "ValueError" ELSE "HTTPException"]

RescheduleInterview ==
    \E u \in Users, a \in AppIds, s \in IsoInputs :
        IF RescheduleCheck(u, a, s) # 0
        THEN /\ last' = RescheduleRefused(u, a, s)
             /\ UNCHANGED <<appStatus, interviews, assigned, slots, nextSlot, hist>>
        ELSE LET i == FirstInterviewOf(a) IN
             \E order \in Orders(InterviewersOf(i)) :
             \E fx \in FxOutcomes(RescheduleCalls(a, order)) :
                /\ last' = RescheduleResponse(u, a, i, s, order, fx)
                /\ UNCHANGED <<appStatus, assigned, slots, nextSlot>>
                /\ IF Persisted(RescheduleCalls(a, order), fx)
                   THEN /\ interviews' = [interviews EXCEPT
                                            ![i] = Rescheduled(@, FromIsoformat(s))]
                        /\ hist' = [hist EXCEPT ![i].set_by = "reschedule"]
                   ELSE UNCHANGED <<interviews, hist>>

\* ------------------------------------------------------------------------
\* _cancel_interview and its two routes
\* ------------------------------------------------------------------------
\* Cancelled keeping the scheduled time (line 309 left out).
CancelledKeepsTime(row) == [row EXCEPT !.status = "cancelled"]

\* The Interview row after the cancel.
Cancelled(row) == [row EXCEPT !.status = "cancelled", !.scheduled_at = NULL]

\* Application.status left as it was by the cancel (line 308 left out).
StatusAfterCancelKept == "interview"

\* Application.status after the cancel.
StatusAfterCancel == "rejected"

\* The interviews table after a cancel that deletes the row
\* (db.delete(interview) in place of lines 307-309).
InterviewsAfterCancelDeleted(i) ==
    SubSeq(interviews, 1, i - 1) \o SubSeq(interviews, i + 1, Len(interviews))

\* Lines 307-309 and 314: the interviews table after the cancel; the row
\* stays, with its status and scheduled_at changed.
InterviewsAfterCancel(i) == [interviews EXCEPT ![i] = Cancelled(@)]

CancelCalls(a) == <<(<<"notify", Candidate[a], "cancelled">>)>>

CancelInterview(op, u, a) ==
    IF FirstInterviewOf(a) = 0
    THEN /\ last' = Refused(op, u, a, 0, 404)
         /\ UNCHANGED <<appStatus, interviews, assigned, slots, nextSlot, hist>>
    ELSE \E fx \in FxOutcomes(CancelCalls(a)) :
         LET i == FirstInterviewOf(a) IN
            /\ last' = Outcome(op, u, a, i, 0, CancelCalls(a), fx)
            /\ UNCHANGED <<assigned, slots, nextSlot>>
            /\ IF Persisted(CancelCalls(a), fx)
               THEN /\ interviews' = InterviewsAfterCancel(i)
                    /\ appStatus' = [appStatus EXCEPT
                                       ![interviews[i].application_id] = StatusAfterCancel]
                    /\ hist' = [hist EXCEPT ![i].set_by = "none"]
               ELSE UNCHANGED <<interviews, appStatus, hist>>

CancelInterviewByRecruiter ==
    \E u \in Users, a \in AppIds :
        IF Role[u] # "recruiter"
        THEN /\ last' = Refused("cancel_recruiter", u, a, 0, 403)
             /\ UNCHANGED <<appStatus, interviews, assigned, slots, nextSlot, hist>>
        ELSE CancelInterview("cancel_recruiter", u, a)

CancelInterviewByCandidate ==
    \E u \in Users, a \in AppIds :
        IF Role[u] # "user"
        THEN /\ last' = Refused("cancel_candidate", u, a, 0, 403)
             /\ UNCHANGED <<appStatus, interviews, assigned, slots, nextSlot, hist>>
        ELSE CancelInterview("cancel_candidate", u, a)

\* ------------------------------------------------------------------------
\* add_interview_slots
\* ------------------------------------------------------------------------
\* Every start_time and end_time of the body parses with "%H:%M"; otherwise
\* strptime raises inside the loop, before the commit.
BatchParses(batch) ==
    \A k \in 1..Len(batch) :
        ParsesAsTime(batch[k].start_time) /\ ParsesAsTime(batch[k].end_time)

\* The row with its times put in order, start before end.
NewSlotOrdered(i, d, slot) ==
    LET st == Combine(d, TimeOfDay(slot.start_time))
        en == Combine(d, TimeOfDay(slot.end_time))
    IN  [interview_id |-> i,
         start_time   |-> IF st <= en THEN st ELSE en,
         end_time     |-> IF st <= en THEN en ELSE st,
         is_selected  |-> FALSE]

\* The InterviewSlot row built from one element of the body.
NewSlot(i, d, slot) ==
    [interview_id |-> i,
     start_time   |-> Combine(d, TimeOfDay(slot.start_time)),
     end_time     |-> Combine(d, TimeOfDay(slot.end_time)),
     is_selected  |-> FALSE]

\* interview.slots.clear(): the slots that stay in the table.
SlotsKept(i) == DOMAIN slots \ SlotsOf(i)

\* The slots table without the clear at line 410: the inserts only.
SlotsAfterOfferNoClear(i, d, batch) ==
    LET new == {nextSlot + k - 1 : k \in 1..Len(batch)}
    IN  [s \in DOMAIN slots \cup new |->
            IF s \in new THEN NewSlot(i, d, batch[s - nextSlot + 1]) ELSE slots[s]]

\* The slots table after the clear and the inserts of the batch.
SlotsAfterOffer(i, d, batch) ==
    LET new == {nextSlot + k - 1 : k \in 1..Len(batch)}
    IN  [s \in SlotsKept(i) \cup new |->
            IF s \in new THEN NewSlot(i, d, batch[s - nextSlot + 1]) ELSE slots[s]]

\* The request repeats the one before it: that one was an
\* add_interview_slots for the same interview with the same body (and the
\* same interview_date, Dates having one element) and committed.
RepeatsOffer(i, batch) ==
    last.op = "offer" /\ last.wrote /\ last.iid = i /\ last.body = batch

\* The slot-selection e-mail to the candidate.
OfferCalls(a) == <<(<<"mail", Candidate[a], "plain">>)>>

AddInterviewSlots ==
    \E u \in Users, i \in 1..(MaxInterviews + 1) :
        IF Role[u] # "recruiter"
        THEN /\ last' = Refused("offer", u, "a9", 0, 403)
             /\ UNCHANGED <<appStatus, interviews, assigned, slots, nextSlot, hist>>
        ELSE IF i \notin InterviewIds
        THEN /\ last' = Refused("offer", u, "a9", 0, 404)
             /\ UNCHANGED <<appStatus, interviews, assigned, slots, nextSlot, hist>>
        ELSE \E d \in Dates, batch \in Batches :
             LET a == interviews[i].application_id IN
             IF ~BatchParses(batch)
             THEN /\ last' = [Response("offer", u, a, i, 0, 500, {}, {})
                                 EXCEPT !.error = "ValueError"]
                  /\ UNCHANGED <<appStatus, interviews, assigned, slots, nextSlot, hist>>
             ELSE \E fx \in FxOutcomes(OfferCalls(a)) :
                  LET calls == OfferCalls(a) IN
                    /\ nextSlot + Len(batch) - 1 <= MaxSlots
                    /\ last' = [Outcome("offer", u, a, i, 0, calls, fx)
                                  EXCEPT !.body = batch, !.repeat = RepeatsOffer(i, batch)]
                    /\ UNCHANGED <<appStatus, interviews, assigned, hist>>
                    /\ IF Persisted(calls, fx)
                       THEN /\ slots' = SlotsAfterOffer(i, d, batch)
                            /\ nextSlot' = nextSlot + Len(batch)
                       ELSE UNCHANGED <<slots, nextSlot>>

\* ------------------------------------------------------------------------
\* get_interview_slots
\* ------------------------------------------------------------------------
GetInterviewSlots ==
    \E u \in Users, a \in AppIds :
        /\ last' = IF Role[u] # "user" THEN Refused("list", u, a, 0, 403)
                    ELSE IF FirstInterviewOf(a) = 0 THEN Refused("list", u, a, 0, 404)
                    ELSE Response("list", u, a, FirstInterviewOf(a), 0, 200, {}, {})
        /\ UNCHANGED <<appStatus, interviews, assigned, slots, nextSlot, hist>>

\* ------------------------------------------------------------------------
\* select_interview_slot
\* ------------------------------------------------------------------------
\* SelectCheck without the already-confirmed check (lines 512-513 left out).
SelectCheckNoConfirmed(u, s) ==
    IF Role[u] # "user" THEN 403
    ELSE IF s \notin DOMAIN slots THEN 404
    ELSE 0

SelectCheck(u, s) ==
    IF Role[u] # "user" THEN 403
    ELSE IF s \notin DOMAIN slots THEN 404
    ELSE IF interviews[slots[s].interview_id].scheduled_at # NULL THEN 400
    ELSE 0

\* SlotsAfterSelect without the bulk update (lines 515-517 left out).
SlotsAfterSelectNoReset(s) == [slots EXCEPT ![s].is_selected = TRUE]

\* The slots table after the bulk update and the selection of slot s.
SlotsAfterSelect(s) ==
    [t \in DOMAIN slots |->
        IF t = s THEN [slots[t] EXCEPT !.is_selected = TRUE]
        ELSE IF slots[t].interview_id = slots[s].interview_id
             THEN [slots[t] EXCEPT !.is_selected = FALSE]
             ELSE slots[t]]

\* The Interview row after the selection of slot s.
Confirmed(row, s) == [row EXCEPT !.scheduled_at = slots[s].start_time]

\* Resume fetch, calendar invite and e-mails; the e-mails of the candidate
\* go to the address of the caller.
SelectCalls(u, a, order) == FetchResume(a) \o ConfirmationMails(u, a, order)

SelectResponse(u, a, i, s, order, fx) ==
    Outcome("select", u, a, i, s, SelectCalls(u, a, order), fx)

SelectInterviewSlot ==
    \E u \in Users, s \in 1..MaxSlots :
        IF SelectCheck(u, s) # 0
        THEN /\ last' = Refused("select", u, interviews[slots[s].interview_id].application_id, s,
                            SelectCheck(u, s))
             /\ UNCHANGED <<appStatus, interviews, assigned, slots, nextSlot, hist>>
        ELSE LET i == slots[s].interview_id
                 a == interviews[i].application_id
             IN  \E order \in Orders(InterviewersOf(i)) :
                 \E fx \in FxOutcomes(SelectCalls(u, a, order)) :
                    /\ last' = SelectResponse(u, a, i, s, order, fx)
                    /\ UNCHANGED <<appStatus, assigned, nextSlot>>
                    /\ IF Persisted(SelectCalls(u, a, order), fx)
                       THEN /\ slots' = SlotsAfterSelect(s)
                            /\ interviews' = [interviews EXCEPT ![i] = Confirmed(@, s)]
                            /\ hist' = [hist EXCEPT ![i].set_by = "select"]
                       ELSE UNCHANGED <<slots, interviews, hist>>

\* ------------------------------------------------------------------------
\* Specification: requests are handled one at a time.
\* ------------------------------------------------------------------------
Next ==
    \/ ScheduleInterview /\ UNCHANGED inflight
    \/ RescheduleInterview /\ UNCHANGED inflight
    \/ CancelInterviewByRecruiter /\ UNCHANGED inflight
    \/ CancelInterviewByCandidate /\ UNCHANGED inflight
    \/ AddInterviewSlots /\ UNCHANGED inflight
    \/ GetInterviewSlots /\ UNCHANGED inflight
    \/ SelectInterviewSlot /\ UNCHANGED inflight

Spec == Init /\ [][Next]_vars

\* ------------------------------------------------------------------------
\* Specification: select_interview_slot requests that overlap.
\*
\* Each request runs in its own Session (get_db) on an engine created with
\* the defaults of the database; the handler takes no lock (no
\* with_for_update, no version column).  Its reads (lines 494-513) and its
\* writes with their commit (lines 515-522) are therefore two steps, and
\* the steps of another request can come between them.  The response of a
\* request is kept with its session; `last` is not written when requests
\* overlap.
\* ------------------------------------------------------------------------
\* The tables when slots have been offered for a slot-mode Interview and none
\* is selected: the state after schedule_interview and add_interview_slots.
SlotsOffered ==
    \E a \in Apps, ids \in InterviewerIdInputs, d \in Dates,
       batch \in {b \in Batches : Len(b) >= 1 /\ Len(b) <= MaxSlots /\ BatchParses(b)} :
        /\ appStatus = [x \in Apps |-> IF x = a THEN StatusAfterSchedule ELSE "applied"]
        /\ interviews = <<NewInterview(a, "slot", NULL)>>
        /\ assigned = {<<1, w>> : w \in ids}
        /\ slots = [s \in 1..Len(batch) |-> NewSlot(1, d, batch[s])]
        /\ nextSlot = Len(batch) + 1
        /\ hist = <<[mode |-> "slot", set_by |-> "none"]>>
        /\ last = [Outcome("offer", "r1", a, 1, 0, OfferCalls(a), Len(OfferCalls(a)))
                     EXCEPT !.body = batch]

ConcInit ==
    /\ SlotsOffered
    /\ inflight = [p \in Sessions |-> Idle]

\* A session that has answered its request.
Answered(u, s, code) ==
    [pc |-> "done", caller |-> u, sid |-> IF code \in {403, 404} THEN 0 ELSE s,
     code |-> code]

\* Lines 494-513: the role check, the lookup of the slot and the check of
\* interview.scheduled_at, on what is committed when the request reads.
SelectRead(p) ==
    /\ inflight[p].pc = "idle"
    /\ \E u \in Users, s \in 1..MaxSlots :
          IF SelectCheck(u, s) # 0
          THEN inflight' = [inflight EXCEPT ![p] = Answered(u, s, SelectCheck(u, s))]
          ELSE inflight' = [inflight EXCEPT
                              ![p] = [pc |-> "checked", caller |-> u, sid |-> s, code |-> 0]]
    /\ UNCHANGED <<appStatus, interviews, assigned, slots, nextSlot, hist, last>>

\* Lines 515-576: the bulk update, the two assignments and the commit, then
\* the e-mails.  When the slot was deleted since the read, the UPDATE of its
\* row matches nothing and the flush raises.  When another request has
\* committed a selection since this one read, what the commit does depends
\* on the database: it overwrites (read committed) or it raises (a
\* serialization or lock error); a request that raises is answered 500 with
\* nothing written.
SelectWrite(p) ==
    /\ inflight[p].pc = "checked"
    /\ UNCHANGED <<appStatus, assigned, nextSlot, last>>
    /\ LET u == inflight[p].caller
           s == inflight[p].sid
           i == slots[s].interview_id
           a == interviews[i].application_id
       IN  IF s \notin DOMAIN slots
           THEN /\ inflight' = [inflight EXCEPT ![p] = Answered(u, s, 500)]
                /\ UNCHANGED <<interviews, slots, hist>>
           ELSE
           \E commits \in (IF interviews[i].scheduled_at # NULL THEN BOOLEAN ELSE {TRUE}) :
           IF commits
           THEN \E order \in Orders(InterviewersOf(i)) :
                \E fx \in FxOutcomes(SelectCalls(u, a, order)) :
                   /\ inflight' = [inflight EXCEPT
                         ![p] = Answered(u, s, SelectResponse(u, a, i, s, order, fx).code)]
                   /\ IF Persisted(SelectCalls(u, a, order), fx)
                      THEN /\ slots' = SlotsAfterSelect(s)
                           /\ interviews' = [interviews EXCEPT ![i] = Confirmed(@, s)]
                           /\ hist' = [hist EXCEPT ![i].set_by = "select"]
                      ELSE UNCHANGED <<slots, interviews, hist>>
           ELSE /\ inflight' = [inflight EXCEPT ![p] = Answered(u, s, 500)]
                /\ UNCHANGED <<interviews, slots, hist>>

ConcNext ==
    \/ \E p \in Sessions : SelectRead(p)
    \/ \E p \in Sessions : SelectWrite(p)

ConcSpec == ConcInit /\ [][ConcNext]_vars

\* ------------------------------------------------------------------------
\* Specification: select_interview_slot, add_interview_slots,
\* reschedule_interview and cancel requests on one Interview that overlap.
\*
\* As above each handler is two steps: its reads, which load the rows into
\* the Session, and its flush and commit.  The flush writes the columns whose
\* assigned value differs from the loaded one (the unit of work of the ORM)
\* and deletes the slots that were in the loaded interview.slots.  A request
\* that is refused, and the response of a request that wrote, change no
\* table: the session is then ready for its next request.
\* ------------------------------------------------------------------------
\* The tables after schedule_interview in slot mode, for the application
\* with a resume and with the interviewers attached.
SlotModeScheduled ==
    \E a \in {"a1"}, ids \in {Interviewers} :
        /\ appStatus = [x \in Apps |-> IF x = a THEN StatusAfterSchedule ELSE "applied"]
        /\ interviews = <<NewInterview(a, "slot", NULL)>>
        /\ assigned = {<<1, w>> : w \in ids}
        /\ slots = <<>>
        /\ nextSlot = 1
        /\ hist = <<[mode |-> "slot", set_by |-> "none"]>>
        /\ last = ScheduleResponse("r1", a, 1, "slot", NewInterview(a, "slot", NULL), <<>>, 1)

OpsInit ==
    /\ SlotModeScheduled
    /\ inflight = [p \in Sessions |-> Idle]

\* get_db: the Session is closed after the response and the next request
\* gets a new one.
Release(p) ==
    /\ inflight[p].pc = "done"
    /\ inflight' = [inflight EXCEPT ![p] = Idle]
    /\ UNCHANGED <<appStatus, interviews, assigned, slots, nextSlot, hist, last>>

\* Slot ids that the add_interview_slots requests in flight will take.
PendingSlots ==
    LET n(p) == IF inflight[p].pc = "offer" THEN Len(inflight[p].body) ELSE 0
    IN  n("p1") + n("p2")

\* Lines 395-428 of a request that passes the role check and finds the
\* Interview: the load of interview.slots for clear(), and the parsing of
\* the body, which raises before anything is written.
OfferRead(p) ==
    /\ inflight[p].pc = "idle"
    /\ UNCHANGED <<appStatus, interviews, assigned, slots, nextSlot, hist, last>>
    /\ \E i \in InterviewIds, d \in Dates, batch \in Batches :
          IF ~BatchParses(batch)
          THEN UNCHANGED inflight
          ELSE /\ nextSlot + PendingSlots + Len(batch) - 1 <= MaxSlots
               /\ inflight' = [inflight EXCEPT ![p] =
                     [pc |-> "offer", iid |-> i, date |-> d, body |-> batch,
                      loaded |-> SlotsOf(i)]]

\* Lines 430-454: the flush deletes the loaded slots and inserts the new
\* ones; the commit; the e-mail.
OfferWrite(p) ==
    /\ inflight[p].pc = "offer"
    /\ LET r     == inflight[p]
           new   == {nextSlot + k - 1 : k \in 1..Len(r.body)}
           kept  == DOMAIN slots \ r.loaded
       IN  /\ slots' = [s \in kept \cup new |->
                          IF s \in new
                          THEN NewSlot(r.iid, r.date, r.body[s - nextSlot + 1])
                          ELSE slots[s]]
           /\ nextSlot' = nextSlot + Len(r.body)
    /\ inflight' = [inflight EXCEPT ![p] = Idle]
    /\ UNCHANGED <<appStatus, interviews, assigned, hist, last>>

\* Lines 188-218: the checks of reschedule_interview by a recruiter, which
\* load the Interview row.
RescheduleRead(p) ==
    /\ inflight[p].pc = "idle"
    /\ UNCHANGED <<appStatus, interviews, assigned, slots, nextSlot, hist, last>>
    /\ \E a \in Apps, s \in IsoInputs :
          IF RescheduleCheck("r1", a, s) # 0
          THEN UNCHANGED inflight
          ELSE inflight' = [inflight EXCEPT ![p] =
                  [pc |-> "reschedule", iid |-> FirstInterviewOf(a), new_dt |-> s,
                   loaded |-> interviews[FirstInterviewOf(a)]]]

\* The value a column has after a flush: the assigned value when it differs
\* from the loaded one, else what is committed.
Flushed(loaded, assigned_value, committed) ==
    IF assigned_value # loaded THEN assigned_value ELSE committed

\* Lines 221-224: the assignments and the commit.
RescheduleWrite(p) ==
    /\ inflight[p].pc = "reschedule"
    /\ LET r      == inflight[p]
           i      == r.iid
           target == Rescheduled(r.loaded, FromIsoformat(r.new_dt))
       IN  /\ interviews' = [interviews EXCEPT
                 ![i].scheduled_at = Flushed(r.loaded.scheduled_at, target.scheduled_at, @),
                 ![i].status = Flushed(r.loaded.status, target.status, @)]
           /\ hist' = IF target.scheduled_at # r.loaded.scheduled_at
                      THEN [hist EXCEPT ![i].set_by = "reschedule"] ELSE hist
    /\ inflight' = [inflight EXCEPT ![p] = Idle]
    /\ UNCHANGED <<appStatus, assigned, slots, nextSlot, last>>

\* Lines 300-304 of a cancel that passed the role check of its route: the
\* lookup, which loads the Interview; interview.application is loaded by the
\* assignment to it.
CancelRead(p) ==
    /\ inflight[p].pc = "idle"
    /\ UNCHANGED <<appStatus, interviews, assigned, slots, nextSlot, hist, last>>
    /\ \E a \in Apps :
          IF FirstInterviewOf(a) = 0
          THEN UNCHANGED inflight
          ELSE inflight' = [inflight EXCEPT ![p] =
                  [pc |-> "cancel", iid |-> FirstInterviewOf(a),
                   loaded |-> interviews[FirstInterviewOf(a)],
                   loaded_status |-> appStatus[a]]]

\* Lines 307-314: the assignments and the commit.
CancelWrite(p) ==
    /\ inflight[p].pc = "cancel"
    /\ LET r      == inflight[p]
           i      == r.iid
           a      == interviews[i].application_id
           target == Cancelled(r.loaded)
       IN  /\ interviews' = [interviews EXCEPT
                 ![i].scheduled_at = Flushed(r.loaded.scheduled_at, target.scheduled_at, @),
                 ![i].status = Flushed(r.loaded.status, target.status, @)]
           /\ appStatus' = [appStatus EXCEPT
                 ![a] = Flushed(r.loaded_status, StatusAfterCancel, @)]
           /\ hist' = IF target.scheduled_at # r.loaded.scheduled_at
                      THEN [hist EXCEPT ![i].set_by = "none"] ELSE hist
    /\ inflight' = [inflight EXCEPT ![p] = Idle]
    /\ UNCHANGED <<assigned, slots, nextSlot, last>>

OpsNext ==
    \/ \E p \in Sessions : SelectRead(p)
    \/ \E p \in Sessions : SelectWrite(p)
    \/ \E p \in Sessions : OfferRead(p)
    \/ \E p \in Sessions : OfferWrite(p)
    \/ \E p \in Sessions : RescheduleRead(p)
    \/ \E p \in Sessions : RescheduleWrite(p)
    \/ \E p \in Sessions : CancelRead(p)
    \/ \E p \in Sessions : CancelWrite(p)
    \/ \E p \in Sessions : Release(p)

OpsSpec == OpsInit /\ [][OpsNext]_vars

\* ------------------------------------------------------------------------
\* Specification: schedule_interview requests that overlap.
\* ------------------------------------------------------------------------
\* The INSERT of an Interview for an application that has one violates no
\* constraint.
InsertNeverRaises(a) == FALSE

\* Interview.application_id is unique: the INSERT of a second Interview for
\* the application raises at the commit.
InsertRaises(a) == InterviewsOf(a) # {}

\* Lines 39-59: the role check, the lookup of the Application and the two
\* checks on it, on what is committed when the request reads.
ScheduleRead(p) ==
    /\ inflight[p].pc = "idle"
    /\ UNCHANGED <<appStatus, interviews, assigned, slots, nextSlot, hist, last>>
    /\ \E u \in Users, a \in AppIds, mode \in Modes, sat \in ScheduledAtInputs,
          ids \in InterviewerIdInputs :
          IF ScheduleCheck(u, a) # 0
          THEN inflight' = [inflight EXCEPT ![p] =
                  [pc |-> "done", caller |-> u, sid |-> 0, code |-> ScheduleCheck(u, a),
                   app |-> "a9", passed |-> FALSE, iid |-> 0, ids |-> {}]]
          ELSE inflight' = [inflight EXCEPT ![p] =
                  [pc |-> "schedule", caller |-> u, sid |-> 0, code |-> 0, app |-> a,
                   mode |-> mode, sat |-> sat, ids |-> ids]]

\* Lines 62-77: the insert and the status change, and their commit.  A
\* request whose insert raises is answered 500 with nothing written.
ScheduleInsert(p) ==
    /\ inflight[p].pc = "schedule"
    /\ UNCHANGED <<assigned, slots, nextSlot, last>>
    /\ LET r   == inflight[p]
           a   == r.app
           row == NewInterview(a, r.mode, r.sat)
       IN  IF InsertRaises(a)
           THEN /\ inflight' = [inflight EXCEPT ![p] =
                      [pc |-> "done", caller |-> r.caller, sid |-> 0, code |-> 500,
                       app |-> a, passed |-> TRUE, iid |-> 0, ids |-> r.ids]]
                /\ UNCHANGED <<interviews, appStatus, hist>>
           ELSE /\ Len(interviews) < MaxInterviews
                /\ inflight' = [inflight EXCEPT ![p] =
                      [r EXCEPT !.pc = "attach"] @@ [iid |-> Len(interviews) + 1]]
                /\ interviews' = Append(interviews, row)
                /\ appStatus' = [appStatus EXCEPT ![a] = StatusAfterSchedule]
                /\ hist' = Append(hist,
                             [mode   |-> r.mode,
                              set_by |-> IF row.scheduled_at # NULL
                                         THEN "schedule" ELSE "none"])

\* Lines 80-173: the InterviewInterviewer rows and their commit, then the
\* notification and the e-mails.  The second commit can raise (an
\* interviewer id that is no interviewer's, the same id twice, a lost
\* connection): the request is answered 500 and the first commit stays.
ScheduleAttach(p) ==
    /\ inflight[p].pc = "attach"
    /\ UNCHANGED <<appStatus, interviews, slots, nextSlot, hist, last>>
    /\ LET r   == inflight[p]
           a   == r.app
           i   == r.iid
           row == NewInterview(a, r.mode, r.sat)
           answered(code) == [pc |-> "done", caller |-> r.caller, sid |-> 0,
                              code |-> code, app |-> a, passed |-> TRUE,
                              iid |-> i, ids |-> r.ids]
       IN  \E commits \in (IF r.ids = {} THEN {TRUE} ELSE BOOLEAN) :
           IF commits
           THEN \E order \in Orders(r.ids) :
                \E fx \in FxOutcomes(ScheduleCalls(a, r.mode, row, order)) :
                   /\ assigned' = assigned \cup Attached(i, r.ids)
                   /\ inflight' = [inflight EXCEPT ![p] =
                         answered(ScheduleResponse(r.caller, a, i, r.mode, row, order, fx).code)]
           ELSE /\ inflight' = [inflight EXCEPT ![p] = answered(500)]
                /\ UNCHANGED assigned

SchedNext ==
    \/ \E p \in Sessions : ScheduleRead(p)
    \/ \E p \in Sessions : ScheduleInsert(p)
    \/ \E p \in Sessions : ScheduleAttach(p)

SchedSpec == Init /\ [][SchedNext]_vars

\* ------------------------------------------------------------------------
\* Types
\* ------------------------------------------------------------------------
TypeOK ==
    /\ appStatus \in [Apps -> {"applied", "shortlisted", "interview", "rejected"}]
    /\ Len(interviews) <= MaxInterviews
    /\ Len(hist) = Len(interviews)
    /\ \A i \in InterviewIds :
          /\ interviews[i].application_id \in Apps
          /\ interviews[i].status \in {"scheduled", "rescheduled", "cancelled"}
    /\ assigned \subseteq (InterviewIds \X Interviewers)
    /\ DOMAIN slots \subseteq 1..(nextSlot - 1)
    /\ \A s \in DOMAIN slots : slots[s].interview_id \in InterviewIds
    /\ nextSlot \in 1..(MaxSlots + 1)
    /\ \A p \in Sessions :
          /\ inflight[p].pc \in {"idle", "checked", "offer", "reschedule", "cancel",
                                  "schedule", "attach", "done"}
          /\ inflight[p].pc \in {"idle", "checked", "done"}
                => /\ inflight[p].caller \in Users
                   /\ inflight[p].sid \in 0..MaxSlots
                   /\ inflight[p].code \in {0, 200, 400, 403, 404, 500}

\* ------------------------------------------------------------------------
\* Properties
\* ------------------------------------------------------------------------
\* The request of the last step got past the role check and the lookup of
\* its target: it was answered 400, or it wrote.
Served(r) == r.code \in {200, 400, 500}

\* A selected slot of interview i.
SelectedSlots(i) == {s \in SlotsOf(i) : slots[s].is_selected}

\* C1: every Application has at most one Interview, and a schedule_interview
\* request (of a recruiter) for an Application that already has an Interview
\* is answered 400 and inserts no Interview.
C1_OneInterviewPerApplication ==
    /\ [](\A a \in Apps : Cardinality(InterviewsOf(a)) <= 1)
    /\ [][ (/\ last'.op = "schedule"
            /\ Served(last')
            /\ InterviewsOf(last'.app) # {})
           => (last'.code = 400 /\ interviews' = interviews) ]_vars

\* A schedule_interview request was refused for an Application that has an
\* Interview.
C1_Witness ==
    /\ last.op = "schedule"
    /\ last.code = 400
    /\ InterviewsOf(last.app) # {}

\* C2: a schedule_interview request answered 200 was made for a shortlisted
\* Application, inserted exactly one Interview with status 'scheduled' for
\* it, moved the Application to 'interview', and the scheduled_at of the new
\* Interview is non-null exactly when the schedule_mode was 'direct'.
C2_ScheduleEffect ==
    [][ (last'.op = "schedule" /\ last'.code = 200)
        => (/\ appStatus[last'.app] = "shortlisted"
            /\ Len(interviews') = Len(interviews) + 1
            /\ \A i \in InterviewIds : interviews'[i] = interviews[i]
            /\ last'.iid = Len(interviews')
            /\ interviews'[last'.iid].application_id = last'.app
            /\ interviews'[last'.iid].status = "scheduled"
            /\ appStatus' = [appStatus EXCEPT ![last'.app] = "interview"]
            /\ (interviews'[last'.iid].scheduled_at # NULL
                  <=> hist'[last'.iid].mode = "direct")) ]_vars

\* A direct schedule_interview request was answered 200.
C2_Witness ==
    /\ last.op = "schedule"
    /\ last.code = 200
    /\ hist[last.iid].mode = "direct"
    /\ interviews[last.iid].scheduled_at # NULL

\* C3: a schedule_interview request (of a recruiter) for an Application whose
\* status is not 'shortlisted' is answered 400, inserts no Interview, attaches
\* no interviewer and leaves every Application.status as it was.
C3_ScheduleNeedsShortlisted ==
    [][ (/\ last'.op = "schedule"
         /\ Served(last')
         /\ appStatus[last'.app] # "shortlisted")
        => (/\ last'.code = 400
            /\ UNCHANGED <<interviews, assigned, appStatus>>) ]_vars

\* A schedule_interview request was refused for an Application that is not
\* shortlisted and has no Interview.
C3_Witness ==
    /\ last.op = "schedule"
    /\ last.code = 400
    /\ appStatus[last.app] = "applied"
    /\ InterviewsOf(last.app) = {}

\* C4: after a cancel answered 200, by the recruiter or by the candidate, the
\* Interview is 'cancelled' with scheduled_at null and its Application is
\* 'rejected'.
C4_CancelEffect ==
    (last.op \in {"cancel_recruiter", "cancel_candidate"} /\ last.code = 200)
        => (/\ last.iid \in InterviewsOf(last.app)
            /\ interviews[last.iid].status = "cancelled"
            /\ interviews[last.iid].scheduled_at = NULL
            /\ appStatus[last.app] = "rejected")

\* The candidate cancelled an Interview that was confirmed by a slot
\* selection.
C4_Witness ==
    /\ last.op = "cancel_candidate"
    /\ last.code = 200
    /\ SelectedSlots(last.iid) # {}

\* C5: an Application.status of 'rejected' never changes again.
C5_RejectedIsFinal ==
    [][ \A a \in Apps : appStatus[a] = "rejected" => appStatus'[a] = "rejected" ]_vars

\* A slot of the Interview of a rejected Application was selected after the
\* cancel.
C5_Witness ==
    /\ last.op = "select"
    /\ last.code = 200
    /\ appStatus[last.app] = "rejected"

\* C6: a reschedule_interview request answered 200 found the Application in
\* 'interview' and left the Interview 'rescheduled' at the new datetime; a
\* request (of a recruiter, for an Application with an Interview) that finds
\* the Application in another status is answered 400 and leaves the
\* interviews table as it was.
C6_RescheduleNeedsInterviewStage ==
    [][ /\ (last'.op = "reschedule" /\ last'.code = 200)
           => (/\ appStatus[last'.app] = "interview"
               /\ interviews'[last'.iid].application_id = last'.app
               /\ interviews'[last'.iid].status = "rescheduled"
               /\ interviews'[last'.iid].scheduled_at
                     \in {FromIsoformat(s) : s \in {x \in IsoInputs : IsoParses(x)}})
        /\ (/\ last'.op = "reschedule"
            /\ Served(last')
            /\ appStatus[last'.app] # "interview")
           => (last'.code = 400 /\ interviews' = interviews) ]_vars

\* A reschedule_interview request was refused for an Application that was
\* rejected by a cancel.
C6_Witness ==
    /\ last.op = "reschedule"
    /\ last.code = 400
    /\ appStatus[last.app] = "rejected"
    /\ interviews[FirstInterviewOf(last.app)].status = "cancelled"

\* C7: after a select_interview_slot request answered 200 the chosen slot is
\* selected, no other slot of its Interview is, and the scheduled_at of the
\* Interview is the start_time of the chosen slot.
C7_SelectEffect ==
    (last.op = "select" /\ last.code = 200)
        => (/\ last.sid \in SlotsOf(last.iid)
            /\ SelectedSlots(last.iid) = {last.sid}
            /\ interviews[last.iid].scheduled_at = slots[last.sid].start_time)

\* A slot was selected for a cancelled Interview that has another slot.
C7_Witness ==
    /\ last.op = "select"
    /\ last.code = 200
    /\ Cardinality(SlotsOf(last.iid)) = 2
    /\ interviews[last.iid].status = "cancelled"

\* C8: a select_interview_slot request (of a candidate, for an existing slot)
\* on an Interview whose scheduled_at is non-null is answered 400 and leaves
\* the slots and the interviews tables as they were; a selection that
\* follows one that wrote is such a request.
C8_SelectRefusedWhenConfirmed ==
    [][ /\ (/\ last'.op = "select"
            /\ Served(last')
            /\ interviews[slots[last'.sid].interview_id].scheduled_at # NULL)
           => (last'.code = 400 /\ slots' = slots /\ interviews' = interviews)
        /\ (/\ last.op = "select" /\ last.code \in {200, 500}
            /\ last'.op = "select" /\ Served(last')
            /\ slots[last'.sid].interview_id = last.iid)
           => last'.code = 400 ]_vars

\* A second selection was refused for an Interview that a selection had
\* confirmed.
C8_Witness ==
    /\ last.op = "select"
    /\ last.code = 400
    /\ hist[slots[last.sid].interview_id].set_by = "select"
    /\ SelectedSlots(slots[last.sid].interview_id) # {}

\* C9: every Interview has at most one slot with is_selected = true.
C9_AtMostOneSelectedSlot ==
    \A i \in InterviewIds : Cardinality(SelectedSlots(i)) <= 1

\* An Interview has two slots, one selected and one not.
C9_Witness ==
    \E i \in InterviewIds :
        /\ Cardinality(SlotsOf(i)) = 2
        /\ Cardinality(SelectedSlots(i)) = 1

\* C10: an Interview has a selected slot only if its scheduled_at is
\* non-null, and an Interview whose scheduled_at was written by a slot
\* selection and is still non-null has a selected slot.
C10_SelectedIffConfirmed ==
    \A i \in InterviewIds :
        /\ SelectedSlots(i) # {} => interviews[i].scheduled_at # NULL
        /\ (hist[i].set_by = "select" /\ interviews[i].scheduled_at # NULL)
              => SelectedSlots(i) # {}

\* C11: an Interview that has offered slots of which none is selected has
\* scheduled_at = null, and an Interview with status scheduled or
\* rescheduled that was created in direct mode or has a selected slot has
\* scheduled_at non-null.
C11_ScheduledAtFollowsSlots ==
    \A i \in InterviewIds :
        /\ (SlotsOf(i) # {} /\ SelectedSlots(i) = {})
              => interviews[i].scheduled_at = NULL
        /\ (/\ interviews[i].status \in {"scheduled", "rescheduled"}
            /\ (hist[i].mode = "direct" \/ SelectedSlots(i) # {}))
              => interviews[i].scheduled_at # NULL

\* The (start_time, end_time) pairs of the slots of interview i.
SlotPairs(i) == {<<slots[s].start_time, slots[s].end_time>> : s \in SlotsOf(i)}

\* C12: an add_interview_slots request that repeats the one before it (same
\* Interview, date and slot list) leaves the Interview with the same set of
\* (start_time, end_time) slots and as many slot rows as the first call
\* left: nothing is duplicated and nothing of the first call is left over.
C12_OfferIsIdempotent ==
    [][ \A i \in InterviewIds :
          (last'.op = "offer" /\ last'.iid = i /\ last'.wrote /\ last'.repeat)
             => /\ SlotPairs(i)' = SlotPairs(i)
                /\ Cardinality(SlotsOf(i)') = Cardinality(SlotsOf(i))
                /\ SlotsOf(i)' \cap SlotsOf(i) = {} ]_vars

\* A non-empty slot list was offered twice in a row for the same Interview.
C12_Witness ==
    /\ last.op = "offer"
    /\ last.wrote
    /\ last.repeat
    /\ last.body # <<>>
    /\ Cardinality(SlotsOf(last.iid)) = Len(last.body)

\* C13: a committed add_interview_slots leaves no slot of the Interview
\* selected, and leaves the interviews table (scheduled_at and status of
\* every Interview) and the status of every Application as they were.
C13_OfferFrame ==
    [][ \A i \in InterviewIds :
          (last'.op = "offer" /\ last'.iid = i /\ last'.wrote)
             => /\ SelectedSlots(i)' = {}
                /\ interviews' = interviews
                /\ appStatus' = appStatus ]_vars

\* Slots were offered for an Interview that a selection had confirmed: the
\* selected slot is gone and scheduled_at is still the one it wrote.
C13_Witness ==
    /\ last.op = "offer"
    /\ last.code = 200
    /\ last.body # <<>>
    /\ hist[last.iid].set_by = "select"
    /\ interviews[last.iid].scheduled_at # NULL
    /\ SelectedSlots(last.iid) = {}

\* C14: a committed add_interview_slots leaves the Interview with exactly
\* one slot per element of the body, in the order of the body, whose
\* start_time and end_time are the element's times on the supplied date,
\* stored as given whether or not they overlap or end before they start.
C14_OfferStoresBodyAsGiven ==
    [][ \A i \in InterviewIds :
          (last'.op = "offer" /\ last'.iid = i /\ last'.wrote)
             => \E d \in Dates :
                  /\ SlotsOf(i)' = {nextSlot + k - 1 : k \in 1..Len(last'.body)}
                  /\ \A k \in 1..Len(last'.body) :
                       LET row == slots'[nextSlot + k - 1]
                           slot == last'.body[k]
                       IN  /\ row.interview_id = i
                           /\ row.start_time = d * MinutesPerDay
                                + slot.start_time[1] * 60 + slot.start_time[2]
                           /\ row.end_time = d * MinutesPerDay
                                + slot.end_time[1] * 60 + slot.end_time[2] ]_vars

\* Two slots were stored for an Interview, the second ending before it
\* starts and lying within the time of the first.
C14_Witness ==
    /\ last.op = "offer"
    /\ last.code = 200
    /\ Len(last.body) = 2
    /\ \E s, t \in SlotsOf(last.iid) :
         /\ s < t
         /\ slots[t].end_time < slots[t].start_time
         /\ slots[s].start_time <= slots[t].end_time
         /\ slots[t].start_time <= slots[s].end_time

\* The operations of a recruiter and those of a candidate.
RecruiterOps == {"schedule", "reschedule", "cancel_recruiter", "offer"}
CandidateOps == {"select", "list", "cancel_candidate"}

\* C15: a recruiter operation called by a user who is not a recruiter, and
\* a candidate operation called by a user who is not a candidate, is
\* answered 403, changes no table, writes no notification and sends no
\* e-mail.
C15_RoleGate ==
    [][ (\/ last'.op \in RecruiterOps /\ Role[last'.caller] # "recruiter"
         \/ last'.op \in CandidateOps /\ Role[last'.caller] # "user")
           => /\ last'.code = 403
              /\ last'.notifs = {}
              /\ last'.mails = {}
              /\ ~last'.wrote
              /\ UNCHANGED <<appStatus, interviews, assigned, slots, nextSlot>> ]_vars

\* A recruiter was refused the candidate's cancel while an Interview that
\* could be cancelled exists.
C15_Witness ==
    /\ last.op = "cancel_candidate"
    /\ last.caller = "r1"
    /\ last.code = 403
    /\ \E i \in InterviewIds : interviews[i].status # "cancelled"

\* What a failing step after the commit leaves in the response: the
\* notification write, the resume fetch, an e-mail send, or the building of
\* the calendar invite.
SideEffectErrors == {"notify", "fetch", "mail", "ics"}

\* A notification or e-mail step of the request of the last step started.
SideEffectStarted(r) ==
    r.notifs # {} \/ r.mails # {} \/ r.error \in SideEffectErrors

\* C16: when a notification or e-mail step of schedule, reschedule, cancel,
\* offer-slots or select-slot has started, whether it succeeded or raised,
\* the state transition of the operation is in the tables.
C16_CommitBeforeSideEffects ==
    [][ SideEffectStarted(last') =>
          /\ last'.wrote
          /\ last'.op = "schedule" =>
               /\ Len(interviews') = Len(interviews) + 1
               /\ last'.iid = Len(interviews')
               /\ interviews'[last'.iid].application_id = last'.app
               /\ interviews'[last'.iid].status = "scheduled"
               /\ appStatus'[last'.app] = "interview"
          /\ last'.op = "reschedule" =>
               /\ interviews'[last'.iid].status = "rescheduled"
               /\ interviews'[last'.iid].scheduled_at # NULL
          /\ last'.op \in {"cancel_recruiter", "cancel_candidate"} =>
               /\ interviews'[last'.iid].status = "cancelled"
               /\ interviews'[last'.iid].scheduled_at = NULL
               /\ appStatus'[last'.app] = "rejected"
          /\ last'.op = "offer" =>
               /\ nextSlot' = nextSlot + Len(last'.body)
               /\ \A k \in 1..Len(last'.body) :
                    /\ nextSlot + k - 1 \in DOMAIN slots'
                    /\ slots'[nextSlot + k - 1].interview_id = last'.iid
          /\ last'.op = "select" =>
               /\ slots'[last'.sid].is_selected
               /\ interviews'[last'.iid].scheduled_at = slots[last'.sid].start_time
       ]_vars

\* The confirmation e-mail of a slot selection raised, the request was
\* answered 500, and the slot is selected and the Interview confirmed.
C16_Witness ==
    /\ last.op = "select"
    /\ last.code = 500
    /\ last.error = "mail"
    /\ slots[last.sid].is_selected
    /\ interviews[last.iid].scheduled_at = slots[last.sid].start_time

\* C17: a request that committed its state transition returns its success
\* payload: a failure of a notification or e-mail step is never the answer
\* of the operation.
C17_SideEffectFailureNotSurfaced ==
    last.wrote => (last.code = 200 /\ last.error = "")

\* C18: every request that committed a state change, and whose notification
\* write did not raise, wrote exactly one in-app notification, addressed to
\* the candidate of the Application it changed.
C18_OneNotificationPerChange ==
    (last.wrote /\ last.error # "notify")
       => \E title \in {"scheduled", "rescheduled", "cancelled", "slots", "confirmed"} :
             last.notifs = {<<Candidate[last.app], title>>}

\* The e-mails of response r that carry attachment att.
MailsWith(r, att) == {m \in r.mails : m[2] = att}

\* C19: a direct scheduling, a reschedule and a slot confirmation that
\* returned 200 sent the calendar invite to the candidate of the Application
\* and to every interviewer assigned to the Interview and to nobody else,
\* and the resume to nobody but that candidate; a slot-mode creation and an
\* offer-slots call sent no calendar invite, and offer-slots sent its plain
\* e-mail to that candidate and nothing else.
C19_MailRecipients ==
    (last.code = 200 /\ last.wrote) =>
       LET i    == last.iid
           cand == Candidate[last.app]
           confirms ==
               \/ last.op = "schedule" /\ hist[i].mode = "direct"
               \/ last.op = "reschedule"
               \/ last.op = "select"
       IN  /\ confirms =>
                /\ MailsWith(last, "ics") =
                      {<<cand, "ics">>} \cup {<<w, "ics">> : w \in InterviewersOf(i)}
                /\ MailsWith(last, "resume") \subseteq {<<cand, "resume">>}
           /\ (last.op = "schedule" /\ hist[i].mode = "slot") =>
                MailsWith(last, "ics") = {}
           /\ last.op = "offer" => last.mails = {<<cand, "plain">>}

\* C20: of two select_interview_slot requests for slots of the same Interview
\* that overlap, at most one is answered with success and the other is
\* answered 400 (InvalidState): they do not both pass the scheduled_at check
\* and commit.
C20_ConcurrentSelectsSerialized ==
    \A p, q \in Sessions :
        (/\ p # q
         /\ inflight[p].pc = "done" /\ inflight[p].code = 200
         /\ inflight[q].pc = "done" /\ inflight[q].sid \in DOMAIN slots)
           => inflight[q].code = 400

\* C21: an Application that has an Interview has status interview or
\* rejected; no Application with status applied or shortlisted has one.
C21_InterviewOnlyFromInterviewStage ==
    \A a \in Apps :
        InterviewsOf(a) # {} => appStatus[a] \in {"interview", "rejected"}

\* An Application has an Interview that was scheduled and then cancelled.
C21_Witness ==
    \E a \in Apps :
        /\ InterviewsOf(a) # {}
        /\ appStatus[a] = "rejected"
        /\ last.op \in {"cancel_recruiter", "cancel_candidate"}
        /\ last.app = a

\* C22: a reschedule_interview request of a recruiter whose new_scheduled_at
\* does not parse changes no table, writes no notification and sends no
\* e-mail; it is answered 404 when the Application has no Interview, 400 for
\* the wrong stage when the Application is not in 'interview', and only
\* otherwise 400 for the datetime.
C22_RescheduleRejectsBadDatetime ==
    [][ \A a \in AppIds :
          (/\ last'.op = "reschedule"
           /\ Role[last'.caller] = "recruiter"
           /\ last'.app = a
           /\ ~IsoParses(last'.body[1]))
             => /\ UNCHANGED <<appStatus, interviews, assigned, slots, nextSlot, hist>>
                /\ last'.notifs = {}
                /\ last'.mails = {}
                /\ ~last'.wrote
                /\ IF FirstInterviewOf(a) = 0
                   THEN last'.code = 404
                   ELSE /\ last'.code = 400
                        /\ last'.error = IF appStatus[a] = "interview"
                                         THEN "ValueError" ELSE "HTTPException" ]_vars

\* A datetime that does not parse was refused for an Interview that could
\* have been rescheduled.
C22_Witness ==
    /\ last.op = "reschedule"
    /\ last.code = 400
    /\ last.error = "ValueError"
    /\ ~IsoParses(last.body[1])
    /\ appStatus[last.app] = "interview"
    /\ interviews[FirstInterviewOf(last.app)].status = "scheduled"

\* C23: whatever the interleaving of select_interview_slot,
\* add_interview_slots, reschedule_interview and cancel requests on an
\* Interview, every committed state has at most one selected slot of the
\* Interview, and when it has one and the last request that wrote
\* scheduled_at was a slot selection, scheduled_at is the start_time of the
\* selected slot.
C23_OneSelectedSlotUnderInterleaving ==
    \A i \in InterviewIds :
        /\ Cardinality(SelectedSlots(i)) <= 1
        /\ (SelectedSlots(i) # {} /\ hist[i].set_by = "select")
              => \A s \in SelectedSlots(i) :
                    interviews[i].scheduled_at = slots[s].start_time

\* Two selections of different slots of an Interview passed the check
\* together and both committed; the slot of the second is the selected one.
C23_Witness ==
    /\ inflight["p1"].pc = "done" /\ inflight["p1"].code = 200
    /\ inflight["p2"].pc = "done" /\ inflight["p2"].code = 200
    /\ inflight["p1"].sid # inflight["p2"].sid
    /\ inflight["p1"].sid \in DOMAIN slots
    /\ inflight["p2"].sid \in DOMAIN slots
    /\ slots[inflight["p1"].sid].interview_id = slots[inflight["p2"].sid].interview_id
    /\ slots[inflight["p1"].sid].start_time # slots[inflight["p2"].sid].start_time
    /\ Cardinality(SelectedSlots(slots[inflight["p1"].sid].interview_id)) = 1
    /\ interviews[slots[inflight["p1"].sid].interview_id].status # "cancelled"

\* C24: of schedule_interview requests for the same Application that
\* overlap, no two insert an Interview: no Application has two Interviews,
\* and when two requests that both passed the checks have been answered the
\* Application has exactly one.
C24_ConcurrentScheduleInsertsOnce ==
    /\ \A a \in Apps : Cardinality(InterviewsOf(a)) <= 1
    /\ \A p, q \in Sessions :
         (/\ p # q
          /\ inflight[p].pc = "done" /\ inflight[p].passed
          /\ inflight[q].pc = "done" /\ inflight[q].passed
          /\ inflight[p].app = inflight[q].app)
            => Cardinality(InterviewsOf(inflight[p].app)) = 1

\* Two requests for the same Application passed the checks together; one
\* inserted the Interview and returned 200, the insert of the other raised.
C24_Witness ==
    /\ inflight["p1"].pc = "done" /\ inflight["p1"].passed
    /\ inflight["p2"].pc = "done" /\ inflight["p2"].passed
    /\ inflight["p1"].app = inflight["p2"].app
    /\ {inflight["p1"].code, inflight["p2"].code} = {200, 500}
    /\ Cardinality(InterviewsOf(inflight["p1"].app)) = 1

\* C25: schedule_interview is one atomic transition: in every committed
\* state in which the Interview of a request exists and the Application is
\* in 'interview', every interviewer of the request is attached to it.
C25_ScheduleIsAtomic ==
    \A p \in Sessions :
        (/\ inflight[p].pc \in {"attach", "done"}
         /\ inflight[p].iid \in InterviewIds
         /\ appStatus[inflight[p].app] = "interview")
           => \A w \in inflight[p].ids : <<inflight[p].iid, w>> \in assigned

\* C26: in every reachable state, an Interview with status 'cancelled'
\* belongs to an Application with status 'rejected'.
C26_CancelledMeansRejected ==
    \A i \in InterviewIds :
        interviews[i].status = "cancelled"
            => appStatus[interviews[i].application_id] = "rejected"

C26_Witness ==
    /\ last.op \in {"cancel_recruiter", "cancel_candidate"}
    /\ last.code = 200
    /\ interviews[last.iid].status = "cancelled"
    /\ appStatus[last.app] = "rejected"

\* C27: in every reachable state, an Interview with status 'cancelled' has
\* scheduled_at = null; no select_interview_slot after the cancel sets it.
C27_CancelledHasNoTime ==
    \A i \in InterviewIds :
        interviews[i].status = "cancelled" => interviews[i].scheduled_at = NULL

\* C28: Interview.status 'cancelled' is terminal: no request changes the
\* status of a cancelled Interview, and a cancel request (of a caller with
\* the route's role) for an Interview that is already cancelled is answered
\* 200 and leaves the interviews and the applications as they were.
C28_CancelledIsTerminal ==
    [][\A i \in InterviewIds :
          interviews[i].status = "cancelled"
             => /\ interviews'[i].status = "cancelled"
                /\ (/\ last'.op \in {"cancel_recruiter", "cancel_candidate"}
                    /\ last'.iid = i)
                      => /\ last'.code = 200
                         /\ interviews' = interviews
                         /\ appStatus' = appStatus]_vars

\* C29: a candidate changes only their own interview: a
\* select_interview_slot or cancel_interview_by_candidate request of a
\* candidate who is not the candidate of the Application leaves the
\* interviews, the slots and the applications as they were.
C29_CandidateChangesOnlyOwn ==
    [][(/\ last'.op \in {"select", "cancel_candidate"}
        /\ Role[last'.caller] = "user"
        /\ last'.app \in Apps
        /\ Candidate[last'.app] # last'.caller)
          => UNCHANGED <<interviews, slots, appStatus>>]_vars

\* C30: the interviewers of an Interview are fixed by schedule_interview:
\* a schedule request attaches interviewers to the Interview it inserts
\* only, every other request leaves all assignments as they were, and no
\* request removes an Interview or gives it to another Application.
C30_InterviewersFixedNoDelete ==
    [][/\ \A i \in InterviewIds :
            {w \in Interviewers : <<i, w>> \in assigned'} = InterviewersOf(i)
       /\ last'.op # "schedule" => assigned' = assigned
       /\ Len(interviews') >= Len(interviews)
       /\ \A i \in InterviewIds :
            interviews'[i].application_id = interviews[i].application_id]_vars

C30_Witness ==
    /\ last.op \in {"reschedule", "cancel_recruiter", "cancel_candidate", "offer", "select"}
    /\ last.code = 200
    /\ last.wrote
    /\ interviews[last.iid].application_id = last.app
    /\ InterviewersOf(last.iid) = Interviewers

====
